---- MODULE Spec2Model ----
(***************************************************************************)
(* Model of thorn.utils.functional: the operator registry, the transition  *)
(* operator builder, the leaf compiler and the predicate tree Q.           *)
(*                                                                         *)
(* Python strings that the code parses (condition keys, attribute paths,   *)
(* opcodes) are sequences of one-character strings.  Python values are     *)
(* records [k, n, s, l]: k is the type, n the number of an int or a bool,  *)
(* s the characters of a str, l the items (ints) of a list.                *)
(***************************************************************************)
EXTENDS Integers, Sequences, FiniteSets, TLC

VARIABLES
    nodes,          \* Q instances: id -> [live, cls, connector, negated, children, compiled, stack]
    compileRan,     \* id -> whether Q.compile ever ran for the node
    last,           \* observation of the last Q.__call__ made from outside
    lkey, lrhs, lobj, lleaf, lres, lpc,    \* one leaf: key, literal, candidate, partial, outcome
    kkey, krhs, kres, kpc           \* one key handed to prepare_statement

vars == <<nodes, compileRan, last, lkey, lrhs, lobj, lleaf, lres, lpc, kkey, krhs, kres, kpc>>

treeVars == <<nodes, compileRan, last>>
leafVars == <<lkey, lrhs, lobj, lleaf, lres, lpc>>
keyVars == <<kkey, krhs, kres, kpc>>

----------------------------------------------------------------------------
(* Bounds *)

\* ints of the value universe are 0..MaxInt
MaxInt == 2
\* condition keys handed to prepare_statement alone have at most MaxKeyLen characters
MaxKeyLen == 5
\* Q instances alive at once
MaxNodes == 2
\* children of all Q instances together
MaxLeaves == 3

----------------------------------------------------------------------------
(* Python values *)

PyNone == [k |-> "None", n |-> 0, s |-> <<>>, l |-> <<>>]
PyBool(b) == [k |-> "bool", n |-> IF b THEN 1 ELSE 0, s |-> <<>>, l |-> <<>>]
PyInt(i) == [k |-> "int", n |-> i, s |-> <<>>, l |-> <<>>]
PyStr(cs) == [k |-> "str", n |-> 0, s |-> cs, l |-> <<>>]
PyList(xs) == [k |-> "list", n |-> 0, s |-> <<>>, l |-> xs]
\* an object that is not a plain value (an intermediate attribute of a candidate)
PyObj == [k |-> "obj", n |-> 0, s |-> <<>>, l |-> <<>>]

PyTrue == PyBool(TRUE)
PyFalse == PyBool(FALSE)

IsNum(v) == v.k \in {"int", "bool"}

\* values whose identity is decided by their value: the singletons and small ints
Atoms == {PyNone, PyTrue, PyFalse} \cup {PyInt(i) : i \in 0..MaxInt}

Strs == {PyStr(<<>>), PyStr(<<"a">>), PyStr(<<"a", "b">>)}

Lists == {PyList(<<>>), PyList(<<1>>)}

Values == Atoms \cup Strs \cup Lists

\* bool(v)
Truth(v) ==
    CASE v.k = "None" -> FALSE
      [] IsNum(v) -> v.n # 0
      [] v.k = "str" -> v.s # <<>>
      [] v.k = "list" -> v.l # <<>>
      [] OTHER -> TRUE

\* a == b (never raises on these types; bool is an int: True == 1)
PyEq(a, b) ==
    CASE IsNum(a) /\ IsNum(b) -> a.n = b.n
      [] a.k = "str" /\ b.k = "str" -> a.s = b.s
      [] a.k = "list" /\ b.k = "list" -> a.l = b.l
      [] a.k = "None" /\ b.k = "None" -> TRUE
      [] a.k = "obj" /\ b.k = "obj" -> TRUE
      [] OTHER -> FALSE

\* a is b: the singletons and small ints are identical when equal and of one type;
\* a str or a list held by the tree is another object than a candidate's attribute
PyIs(a, b) ==
    CASE a.k \in {"None", "bool", "int", "obj"} -> a.k = b.k /\ a.n = b.n
      [] OTHER -> FALSE

Alphabet == <<"_", "a", "b", "c", "d", "e", "f", "g", "h", "i", "j", "k", "l", "m",
              "n", "o", "p", "q", "r", "s", "t", "u", "v", "w", "x", "y", "z">>

Ord(c) == CHOOSE i \in 1..Len(Alphabet) : Alphabet[i] = c

RECURSIVE LexLt(_, _)
\* lexicographic s < t on sequences of ints
LexLt(s, t) ==
    IF t = <<>> THEN FALSE
    ELSE IF s = <<>> THEN TRUE
    ELSE IF Head(s) # Head(t) THEN Head(s) < Head(t)
    ELSE LexLt(Tail(s), Tail(t))

OrdSeq(s) == [i \in 1..Len(s) |-> Ord(s[i])]

----------------------------------------------------------------------------
(* Outcomes: a call returns a boolean (exc = "") or raises exc; arg is the   *)
(* argument formatted into the message of E_FILTER_FIELD_MISSING_OP          *)

Ret(b) == [exc |-> "", val |-> b, arg |-> <<>>]
Raise(e) == [exc |-> e, val |-> FALSE, arg |-> <<>>]
RaiseArg(e, a) == [exc |-> e, val |-> FALSE, arg |-> a]

Returned(r) == r.exc = ""

\* a < b: ints and bools among themselves, str with str, list with list;
\* everything else (None included) raises TypeError
PyLt(a, b) ==
    CASE IsNum(a) /\ IsNum(b) -> Ret(a.n < b.n)
      [] a.k = "str" /\ b.k = "str" -> Ret(LexLt(OrdSeq(a.s), OrdSeq(b.s)))
      [] a.k = "list" /\ b.k = "list" -> Ret(LexLt(a.l, b.l))
      [] OTHER -> Raise("TypeError")

\* a <= b
PyLe(a, b) ==
    CASE IsNum(a) /\ IsNum(b) -> Ret(a.n <= b.n)
      [] a.k = "str" /\ b.k = "str" -> Ret(a.s = b.s \/ LexLt(OrdSeq(a.s), OrdSeq(b.s)))
      [] a.k = "list" /\ b.k = "list" -> Ret(a.l = b.l \/ LexLt(a.l, b.l))
      [] OTHER -> Raise("TypeError")

IsPrefix(p, s) == Len(p) <= Len(s) /\ SubSeq(s, 1, Len(p)) = p

IsSuffix(p, s) == Len(p) <= Len(s) /\ SubSeq(s, Len(s) - Len(p) + 1, Len(s)) = p

\* p in s, for two strings
IsSubstring(p, s) ==
    \E i \in 0..(Len(s) - Len(p)) : SubSeq(s, i + 1, i + Len(p)) = p

\* x in c
PyIn(x, c) ==
    CASE c.k = "list" -> Ret(\E i \in 1..Len(c.l) : PyEq(PyInt(c.l[i]), x))
      [] c.k = "str" -> IF x.k = "str" THEN Ret(IsSubstring(x.s, c.s)) ELSE Raise("TypeError")
      [] OTHER -> Raise("TypeError")

\* not r, of an outcome
Not(r) == IF Returned(r) THEN Ret(~r.val) ELSE r

----------------------------------------------------------------------------
(* The module's functions *)

\* operator.contains(a, b) -> b in a
contains(a, b) == PyIn(b, a)

not_contains(a, b) == Not(PyIn(b, a))

startswith(a, b) ==
    IF a.k # "str" THEN Raise("AttributeError")
    ELSE IF b.k # "str" THEN Raise("TypeError")
    ELSE Ret(IsPrefix(b.s, a.s))

endswith(a, b) ==
    IF a.k # "str" THEN Raise("AttributeError")
    ELSE IF b.k # "str" THEN Raise("TypeError")
    ELSE Ret(IsSuffix(b.s, a.s))

Reverse(t) == [i \in 1..Len(t) |-> t[Len(t) + 1 - i]]

reverse_n(N, tup) ==
    IF N # 0
    THEN Reverse(SubSeq(tup, 1, IF N < Len(tup) THEN N ELSE Len(tup)))
         \o SubSeq(tup, N + 1, Len(tup))
    ELSE Reverse(tup)

\* the functions the registry is built from, by name
BaseFun(f, a, b) ==
    CASE f = "eq" -> Ret(PyEq(a, b))
      [] f = "ne" -> Ret(~PyEq(a, b))
      [] f = "gt" -> PyLt(b, a)
      [] f = "lt" -> PyLt(a, b)
      [] f = "ge" -> PyLe(b, a)
      [] f = "le" -> PyLe(a, b)
      [] f = "is_" -> Ret(PyIs(a, b))
      [] f = "is_not" -> Ret(~PyIs(a, b))
      [] f = "contains" -> contains(a, b)
      [] f = "not_contains" -> not_contains(a, b)
      [] f = "startswith" -> startswith(a, b)
      [] f = "endswith" -> endswith(a, b)
      [] f = "lambda_is_none" -> Ret(PyIs(a, PyNone))
      [] f = "lambda_not" -> Ret(~Truth(a))
      [] f = "lambda_truth" -> Ret(Truth(a))

\* a function value: f, under reverse_arguments(n) when rev, under negate when neg
Fun(f) == [f |-> f, rev |-> FALSE, n |-> 0, neg |-> FALSE]

negate(fun) == [fun EXCEPT !.neg = ~fun.neg]

reverse_arguments(n, fun) == [fun EXCEPT !.rev = TRUE, !.n = n]

CallFun(fun, a, b) ==
    LET args == IF fun.rev THEN reverse_n(fun.n, <<a, b>>) ELSE <<a, b>>
        r == BaseFun(fun.f, args[1], args[2])
    IN  IF fun.neg THEN Not(r) ELSE r

\* wrap_transition(op, did_change): compare(new_value, needle, old_value)
wrap_transition(op, did_change) == [trans |-> TRUE, op |-> op, did |-> did_change]

plain(op) == [trans |-> FALSE, op |-> op, did |-> op]

\* compare without its did_change test: the transition operator is the base operator
compare_without_did_change(w, new_value, needle, old_value) ==
    CallFun(w.op, new_value, needle)

\* did_change(old_value, needle) and op(new_value, needle)
compare(w, new_value, needle, old_value) ==
    LET d == CallFun(w.did, old_value, needle)
    IN  IF ~Returned(d) THEN d
        ELSE IF ~d.val THEN Ret(FALSE)
        ELSE CallFun(w.op, new_value, needle)

----------------------------------------------------------------------------
(* Q.operators *)

Now(name) == <<"n", "o", "w", "_">> \o name

K_eq == <<"e", "q">>
K_ne == <<"n", "e">>
K_gt == <<"g", "t">>
K_lt == <<"l", "t">>
K_gte == <<"g", "t", "e">>
K_lte == <<"l", "t", "e">>
K_in == <<"i", "n">>
K_not_in == <<"n", "o", "t", "_", "i", "n">>
K_is == <<"i", "s">>
K_is_not == <<"i", "s", "_", "n", "o", "t">>
K_contains == <<"c", "o", "n", "t", "a", "i", "n", "s">>
K_startswith == <<"s", "t", "a", "r", "t", "s", "w", "i", "t", "h">>
K_endswith == <<"e", "n", "d", "s", "w", "i", "t", "h">>
K_not == <<"n", "o", "t">>
K_true == <<"t", "r", "u", "e">>

operators ==
    (K_eq :> plain(Fun("eq")))
 @@ (Now(K_eq) :> wrap_transition(Fun("eq"), Fun("ne")))
 @@ (K_ne :> plain(Fun("ne")))
 @@ (Now(K_ne) :> wrap_transition(Fun("ne"), Fun("ne")))
 @@ (K_gt :> plain(Fun("gt")))
 @@ (Now(K_gt) :> wrap_transition(Fun("gt"), Fun("lt")))
 @@ (K_lt :> plain(Fun("lt")))
 @@ (Now(K_lt) :> wrap_transition(Fun("lt"), Fun("gt")))
 @@ (K_gte :> plain(Fun("ge")))
 @@ (Now(K_gte) :> wrap_transition(Fun("ge"), Fun("le")))
 @@ (K_lte :> plain(Fun("le")))
 @@ (Now(K_lte) :> wrap_transition(Fun("le"), Fun("ge")))
 @@ (K_in :> plain(reverse_arguments(2, Fun("contains"))))
 @@ (Now(K_in) :> wrap_transition(reverse_arguments(2, Fun("contains")),
                                  reverse_arguments(2, Fun("not_contains"))))
 @@ (K_not_in :> plain(reverse_arguments(2, Fun("not_contains"))))
 @@ (Now(K_not_in) :> wrap_transition(reverse_arguments(2, Fun("not_contains")),
                                      reverse_arguments(2, Fun("contains"))))
 @@ (K_is :> plain(Fun("is_")))
 @@ (Now(K_is) :> wrap_transition(Fun("is_"), Fun("is_not")))
 @@ (K_is_not :> plain(Fun("is_not")))
 @@ (Now(K_is_not) :> wrap_transition(Fun("is_not"), Fun("lambda_is_none")))
 @@ (K_contains :> plain(Fun("contains")))
 @@ (Now(K_contains) :> wrap_transition(Fun("contains"), negate(Fun("contains"))))
 @@ (K_not :> plain(Fun("lambda_not")))
 @@ (K_true :> plain(Fun("lambda_truth")))
 @@ (K_startswith :> plain(Fun("startswith")))
 @@ (Now(K_startswith) :> wrap_transition(Fun("startswith"), negate(Fun("startswith"))))
 @@ (K_endswith :> plain(Fun("endswith")))
 @@ (Now(K_endswith) :> wrap_transition(Fun("endswith"), negate(Fun("endswith"))))

----------------------------------------------------------------------------
(* str methods the leaf compiler uses *)

SEP == <<"_", "_">>

\* the start of the last occurrence of sep in s, 0 when there is none
RFind(s, sep) ==
    LET hits == {i \in 1..(Len(s) - Len(sep) + 1) : SubSeq(s, i, i + Len(sep) - 1) = sep}
    IN  IF hits = {} THEN 0 ELSE CHOOSE i \in hits : \A j \in hits : j <= i

\* s.rpartition(sep) -> (head, sep, tail), or ('', '', s) without a separator
rpartition(s, sep) ==
    LET i == RFind(s, sep)
    IN  IF i = 0 THEN << <<>>, <<>>, s >>
        ELSE << SubSeq(s, 1, i - 1), sep, SubSeq(s, i + Len(sep), Len(s)) >>

RECURSIVE replace(_, _, _)
\* s.replace(old, new): the occurrences found left to right, not overlapping
replace(s, old, new) ==
    IF Len(s) < Len(old) THEN s
    ELSE IF SubSeq(s, 1, Len(old)) = old
         THEN new \o replace(SubSeq(s, Len(old) + 1, Len(s)), old, new)
         ELSE <<Head(s)>> \o replace(Tail(s), old, new)

RECURSIVE split(_, _)
\* s.split(c), c one character: always at least one (possibly empty) segment
split(s, c) ==
    IF \A i \in 1..Len(s) : s[i] # c THEN <<s>>
    ELSE LET i == CHOOSE i \in 1..Len(s) : s[i] = c /\ \A j \in 1..(i - 1) : s[j] # c
         IN  <<SubSeq(s, 1, i - 1)>> \o split(SubSeq(s, i + 1, Len(s)), c)

\* 'now' in opcode
HasNow(opcode) == IsSubstring(<<"n", "o", "w">>, opcode)

----------------------------------------------------------------------------
(* Candidate objects: attrs maps each attribute path that ends in a value   *)
(* to it; hasPrev says whether obj._previous_version exists, prev is it     *)

Obj(attrs, hasPrev, prev) == [attrs |-> attrs, hasPrev |-> hasPrev, prev |-> prev]

NoAttrs == <<>>

\* operator.attrgetter(lhs)(attrs): getattr along the dotted path
attrgetter(lhs, attrs) ==
    LET segs == split(lhs, ".")
    IN  IF segs \in DOMAIN attrs THEN [exc |-> "", v |-> attrs[segs]]
        ELSE IF \E p \in DOMAIN attrs : Len(p) > Len(segs) /\ SubSeq(p, 1, Len(segs)) = segs
             THEN [exc |-> "", v |-> PyObj]
             ELSE [exc |-> "AttributeError", v |-> PyNone]

----------------------------------------------------------------------------
(* Leaf compiler *)

\* what a child of a tree is: a (key, value) pair or a Q instance
Cond(key, value) == [kind |-> "cond", key |-> key, value |-> value, id |-> 0]
Sub(id) == [kind |-> "node", key |-> <<>>, value |-> PyNone, id |-> id]

\* what compile_node returns: a partial of apply_op or apply_trans_op, or a Q instance
Partial(apply, lhs, rhs, opcode) ==
    [kind |-> "leaf", apply |-> apply, lhs |-> lhs, opcode |-> opcode, rhs |-> rhs, id |-> 0]
QCallable(id) ==
    [kind |-> "node", apply |-> "", lhs |-> <<>>, opcode |-> <<>>, rhs |-> PyNone, id |-> id]
NoCallable ==
    [kind |-> "none", apply |-> "", lhs |-> <<>>, opcode |-> <<>>, rhs |-> PyNone, id |-> 0]

\* prepare_opcode testing the literal with == instead of is: 1 passes for True
prepare_opcode_by_equality(O, rhs) ==
    IF (O = K_eq /\ PyEq(rhs, PyTrue)) \/ (O = K_ne /\ PyEq(rhs, PyFalse)) THEN K_true
    ELSE IF (O = K_eq /\ PyEq(rhs, PyFalse)) \/ (O = K_ne /\ PyEq(rhs, PyTrue)) THEN K_not
    ELSE O

prepare_opcode(O, rhs) ==
    IF (O = K_eq /\ PyIs(rhs, PyTrue)) \/ (O = K_ne /\ PyIs(rhs, PyFalse)) THEN K_true
    ELSE IF (O = K_eq /\ PyIs(rhs, PyFalse)) \/ (O = K_ne /\ PyIs(rhs, PyTrue)) THEN K_not
    ELSE O

\* prepare_statement falling back to equality for a key without a registered opcode
prepare_statement_default_eq(lhs0, rhs) ==
    LET p == rpartition(lhs0, SEP)
    IN  IF p[3] = <<>> \/ p[3] \notin DOMAIN operators
        THEN [exc |-> "", arg |-> <<>>, lhs |-> replace(lhs0, SEP, <<".">>),
              opcode |-> prepare_opcode(K_eq, rhs)]
        ELSE [exc |-> "", arg |-> <<>>, lhs |-> replace(p[1], SEP, <<".">>),
              opcode |-> prepare_opcode(p[3], rhs)]

\* prepare_statement(lhs, rhs) -> (lhs, opcode), or ValueError formatted with lhs:
\* lhs is rebound to the head of the partition before the test
prepare_statement(lhs0, rhs) ==
    LET p == rpartition(lhs0, SEP)
        lhs == p[1]
        opcode == p[3]
    IN  IF opcode = <<>> \/ opcode \notin DOMAIN operators
        THEN [exc |-> "ValueError", arg |-> lhs, lhs |-> <<>>, opcode |-> <<>>]
        ELSE [exc |-> "", arg |-> <<>>, lhs |-> replace(lhs, SEP, <<".">>),
              opcode |-> prepare_opcode(opcode, rhs)]

compile_op(lhs, rhs, opcode) ==
    Partial(IF HasNow(opcode) THEN "apply_trans_op" ELSE "apply_op", lhs, rhs, opcode)

\* calling a registry entry with two or with three arguments
CallOp(w, a, b, extra) ==
    IF w.trans
    THEN IF Len(extra) = 1 THEN compare(w, a, b, extra[1]) ELSE Raise("TypeError")
    ELSE IF Len(extra) = 0 THEN CallFun(w.op, a, b) ELSE Raise("TypeError")

\* apply_op(getter, op, rhs, obj, *args)
apply_op(f, obj, extra) ==
    LET g == attrgetter(f.lhs, obj.attrs)
    IN  IF g.exc # "" THEN Raise(g.exc)
        ELSE CallOp(operators[f.opcode], g.v, f.rhs, extra)

\* _get_from_prev_version(getter, obj): None without a previous version
get_from_prev_version(f, obj) ==
    IF ~obj.hasPrev THEN [exc |-> "", v |-> PyNone]
    ELSE attrgetter(f.lhs, obj.prev)

\* apply_trans_op(getter, op, rhs, obj): the previous value is read first
apply_trans_op(f, obj) ==
    LET old == get_from_prev_version(f, obj)
    IN  IF old.exc # "" THEN Raise(old.exc)
        ELSE apply_op(f, obj, <<old.v>>)

\* calling a compiled leaf on a candidate
CallLeaf(f, obj) ==
    IF f.apply = "apply_trans_op" THEN apply_trans_op(f, obj) ELSE apply_op(f, obj, <<>>)

----------------------------------------------------------------------------
(* The predicate tree *)

NodeIds == 1..MaxNodes

NoNode ==
    [live |-> FALSE, cls |-> "Q", connector |-> "AND", negated |-> FALSE,
     children |-> <<>>, compiled |-> FALSE, stack |-> <<>>]

\* the two gates exchanged
gates_swapped == [OR |-> "all", AND |-> "any"]

\* the gate of a connector: the builtin that aggregates the children's results
gates == [OR |-> "any", AND |-> "all"]

\* the transform of the aggregated result, by the negated flag
branches == [b \in BOOLEAN |-> IF b THEN "not_" ELSE "truth"]

\* compile_node(field): a Q instance is returned as it is, an instance of the base
\* class is first made a Q in place (convert), a (key, value) pair is compiled
compile_node(ns, field) ==
    IF field.kind = "node"
    THEN [exc |-> "", arg |-> <<>>, f |-> QCallable(field.id),
          convert |-> ns[field.id].cls # "Q"]
    ELSE LET st == prepare_statement(field.key, field.value)
         IN  IF st.exc # ""
             THEN [exc |-> st.exc, arg |-> st.arg, f |-> NoCallable, convert |-> FALSE]
             ELSE [exc |-> "", arg |-> <<>>, f |-> compile_op(st.lhs, field.value, st.opcode),
                   convert |-> FALSE]

RECURSIVE CompileFrom(_, _, _, _)

\* one step of the list comprehension of compile: r is compile_node(fields[i]);
\* an exception drops the list, a converted child stays converted
CompileStep(ns, fields, i, acc, r) ==
    IF r.exc # "" THEN [ns |-> ns, exc |-> r.exc, arg |-> r.arg, stack |-> <<>>]
    ELSE CompileFrom(IF r.convert THEN [ns EXCEPT ![fields[i].id].cls = "Q"] ELSE ns,
                     fields, i + 1, Append(acc, r.f))

\* the list comprehension of compile, from field i on
CompileFrom(ns, fields, i, acc) ==
    IF i > Len(fields) THEN [ns |-> ns, exc |-> "", arg |-> <<>>, stack |-> acc]
    ELSE CompileStep(ns, fields, i, acc, compile_node(ns, fields[i]))

\* compile(fields): the direct children only
compile(ns, fields) == CompileFrom(ns, fields, 1, <<>>)

\* a cache that is filled whether compile returned or raised
CacheAfter_always(node, r) == [node EXCEPT !.compiled = TRUE, !.stack = r.stack]

\* what the cached property keeps of a compile: the list when it returned one
CacheAfter(node, r) ==
    IF r.exc = "" THEN [node EXCEPT !.compiled = TRUE, !.stack = r.stack] ELSE node

\* the first read of stack: r is compile(self.children)
StackMiss(id, r) ==
    [ns |-> [r.ns EXCEPT ![id] = CacheAfter(r.ns[id], r)],
     exc |-> r.exc, arg |-> r.arg, stack |-> r.stack, ran |-> TRUE]

\* a plain property: compile runs at every read
stack_uncached(ns, id) == StackMiss(id, compile(ns, ns[id].children))

\* the cached property stack: the cached list, or compile(self.children), cached
\* when compile returns; ran tells whether compile ran
stack(ns, id) ==
    IF ns[id].compiled
    THEN [ns |-> ns, exc |-> "", arg |-> <<>>, stack |-> ns[id].stack, ran |-> FALSE]
    ELSE StackMiss(id, compile(ns, ns[id].children))

RECURSIVE Call(_, _, _, _)
RECURSIVE Gate(_, _, _, _, _, _)

\* f(obj) for one callable of the stack: a partial, or a nested Q
CallChild(ns, cc, f, obj) ==
    IF f.kind = "leaf"
    THEN [ns |-> ns, cc |-> cc, out |-> CallLeaf(f, obj)]
    ELSE Call(ns, cc, f.id, obj)

\* a gate that returns the first result it draws
GateStep_first_decides(builtin, fs, i, obj, r) ==
    [ns |-> r.ns, cc |-> r.cc, out |-> r.out, applied |-> i]

\* what the gate does with r, the i-th result: any stops at the first true result,
\* all at the first false one, an exception ends the iteration
GateStep(builtin, fs, i, obj, r) ==
    IF ~Returned(r.out)
    THEN [ns |-> r.ns, cc |-> r.cc, out |-> r.out, applied |-> i]
    ELSE IF builtin = "any" /\ r.out.val
    THEN [ns |-> r.ns, cc |-> r.cc, out |-> Ret(TRUE), applied |-> i]
    ELSE IF builtin = "all" /\ ~r.out.val
    THEN [ns |-> r.ns, cc |-> r.cc, out |-> Ret(FALSE), applied |-> i]
    ELSE Gate(r.ns, r.cc, builtin, fs, i + 1, obj)

\* gate(f(obj) for f in stack), from the i-th callable on; applied counts the
\* callables the gate called
Gate(ns, cc, builtin, fs, i, obj) ==
    IF i > Len(fs)
    THEN [ns |-> ns, cc |-> cc, out |-> Ret(builtin = "all"), applied |-> i - 1]
    ELSE GateStep(builtin, fs, i, obj, CallChild(ns, cc, fs[i], obj))

\* branches[negated](g), g the gate's result
Branch(transform, ran, g) ==
    [ns |-> g.ns, cc |-> g.cc,
     out |-> IF ~Returned(g.out) THEN g.out
             ELSE IF transform = "not_" THEN Ret(~g.out.val)
             ELSE Ret(g.out.val),
     applied |-> g.applied, ran |-> ran]

\* cc records the instances whose compile ran
CountCompile(cc, id, ran) == IF ran THEN [cc EXCEPT ![id] = TRUE] ELSE cc

\* the body of Q.__call__ once self.stack was read (st): a compile error leaves
\* before any callable is called
CallWith(cc, id, negated, connector, obj, st) ==
    IF st.exc # ""
    THEN [ns |-> st.ns, cc |-> CountCompile(cc, id, st.ran),
          out |-> RaiseArg(st.exc, st.arg), applied |-> 0, ran |-> st.ran]
    ELSE Branch(branches[negated], st.ran,
                Gate(st.ns, CountCompile(cc, id, st.ran), gates[connector], st.stack, 1, obj))

\* Q.__call__(obj): self.stack is read when the generator is made, before the
\* gate draws the first result
Call(ns, cc, id, obj) ==
    CallWith(cc, id, ns[id].negated, ns[id].connector, obj, stack(ns, id))

----------------------------------------------------------------------------
(* The tree machine: trees are constructed, then evaluated on candidates *)

P_x == << <<"x">> >>
P_f == << <<"f">> >>

\* the candidates: x above the threshold after being below it, with a truthy int flag;
\* x below it, with a falsy flag and no previous version; no attribute x at all
Objects ==
    << Obj((P_x :> PyInt(2)) @@ (P_f :> PyInt(1)), TRUE, (P_x :> PyInt(0)) @@ (P_f :> PyInt(1))),
       Obj((P_x :> PyInt(0)) @@ (P_f :> PyInt(0)), FALSE, NoAttrs),
       Obj((P_f :> PyInt(0)), FALSE, NoAttrs) >>

\* the conditions trees are built from: x__gt=1, f__eq=True, name='a' (no opcode),
\* x__now_gt=1
Conds ==
    { Cond(<<"x">> \o SEP \o K_gt, PyInt(1)),
      Cond(<<"f">> \o SEP \o K_eq, PyTrue),
      Cond(<<"n", "a", "m", "e">>, PyStr(<<"a">>)),
      Cond(<<"x">> \o SEP \o Now(K_gt), PyInt(1)) }

NoOutcome == [exc |-> "pending", val |-> FALSE, arg |-> <<>>]

\* node(obj) gave out after calling applied children; ran: compile ran for node in
\* this call; before: node was compiled before it; ranBefore: compile had run before it
NoLast == [node |-> 0, obj |-> 0, out |-> NoOutcome, applied |-> 0, ran |-> FALSE,
           before |-> FALSE, ranBefore |-> FALSE]

Live(ns) == {i \in NodeIds : ns[i].live}

RECURSIVE UsedUpTo(_, _)
UsedUpTo(ns, i) == IF i = 0 THEN 0 ELSE Len(ns[i].children) + UsedUpTo(ns, i - 1)

\* the children of all instances together
Used(ns) == UsedUpTo(ns, MaxNodes)

TreeInit ==
    /\ nodes = [i \in NodeIds |-> NoNode]
    /\ compileRan = [i \in NodeIds |-> FALSE]
    /\ last = NoLast

\* construction keeps the declarative children as they are given: nothing is compiled
\* or checked; children name conditions or instances that exist already
Construct(id, cls, connector, negated, children) ==
    /\ ~nodes[id].live
    /\ \A j \in 1..(id - 1) : nodes[j].live
    /\ nodes' = [nodes EXCEPT ![id] =
                    [live |-> TRUE, cls |-> cls, connector |-> connector, negated |-> negated,
                     children |-> children, compiled |-> FALSE, stack |-> <<>>]]
    /\ UNCHANGED <<compileRan, last, leafVars, keyVars>>

\* the state after the call returned or raised (r)
Returns(id, o, r) ==
    /\ nodes' = r.ns
    /\ compileRan' = r.cc
    /\ last' = [node |-> id, obj |-> o, out |-> r.out, applied |-> r.applied,
                ran |-> r.ran, before |-> nodes[id].compiled, ranBefore |-> compileRan[id]]

\* one call tree(obj) from outside, nested calls included
Evaluate(id, o) ==
    /\ nodes[id].live
    /\ nodes[id].cls = "Q"
    /\ Returns(id, o, Call(nodes, compileRan, id, Objects[o]))
    /\ UNCHANGED <<leafVars, keyVars>>

\* the class of a new instance: Q, or for the first one also the base class,
\* which has no __call__ until a parent's compile_node makes it a Q
Classes(id) == IF id = 1 THEN {"Q", "_Q_"} ELSE {"Q"}

ChildChoices(id) == Conds \cup {Sub(j) : j \in 1..(id - 1)}

ChildLists(id) ==
    UNION {[1..n -> ChildChoices(id)] : n \in 0..(MaxLeaves - Used(nodes))}

----------------------------------------------------------------------------
(* One leaf: compiled from its key, then applied to a candidate *)

LeafIdle ==
    /\ lkey = <<>>
    /\ lrhs = PyNone
    /\ lobj = Obj(NoAttrs, FALSE, NoAttrs)
    /\ lleaf = NoCallable
    /\ lres = NoOutcome
    /\ lpc = "idle"

IdentityOps == {K_is, K_is_not, Now(K_is), Now(K_is_not)}

\* the operands an opcode is tried on: the identity opcodes on atoms only
Operands(opcode) == IF opcode \in IdentityOps THEN Atoms ELSE Values

LeafInit ==
    /\ \E opcode \in DOMAIN operators :
         /\ lkey = <<"x">> \o SEP \o opcode
         /\ lrhs \in Operands(opcode)
         /\ \E new \in Operands(opcode) :
              \/ lobj = Obj(P_x :> new, FALSE, NoAttrs)
              \/ \E old \in Operands(opcode) : lobj = Obj(P_x :> new, TRUE, P_x :> old)
    /\ lleaf = NoCallable
    /\ lres = NoOutcome
    /\ lpc = "ready"

LeafCompile ==
    /\ lpc = "ready"
    /\ LET r == compile_node(nodes, Cond(lkey, lrhs))
       IN  IF r.exc # ""
           THEN /\ lres' = RaiseArg(r.exc, r.arg)
                /\ lpc' = "done"
                /\ UNCHANGED lleaf
           ELSE /\ lleaf' = r.f
                /\ lpc' = "compiled"
                /\ UNCHANGED lres
    /\ UNCHANGED <<lkey, lrhs, lobj, treeVars, keyVars>>

LeafApply ==
    /\ lpc = "compiled"
    /\ lres' = CallLeaf(lleaf, lobj)
    /\ lpc' = "done"
    /\ UNCHANGED <<lkey, lrhs, lobj, lleaf, treeVars, keyVars>>

----------------------------------------------------------------------------
(* One key handed to prepare_statement *)

KeyChars == {"n", "a", "m", "e", "q", "_"}

Keys == UNION {[1..n -> KeyChars] : n \in 0..MaxKeyLen}

NoStatement == [exc |-> "pending", arg |-> <<>>, lhs |-> <<>>, opcode |-> <<>>]

KeyIdle ==
    /\ kkey = <<>>
    /\ krhs = PyNone
    /\ kres = NoStatement
    /\ kpc = "idle"

KeyInit ==
    /\ kkey \in Keys
    /\ krhs \in {PyTrue, PyFalse, PyInt(1)}
    /\ kres = NoStatement
    /\ kpc = "ready"

KeyPrepare ==
    /\ kpc = "ready"
    /\ kres' = prepare_statement(kkey, krhs)
    /\ kpc' = "done"
    /\ UNCHANGED <<kkey, krhs, treeVars, leafVars>>

----------------------------------------------------------------------------
(* Specifications *)

Init == TreeInit /\ LeafIdle /\ KeyIdle

Next ==
    \/ \E id \in NodeIds, connector \in {"AND", "OR"}, negated \in BOOLEAN :
         \E cls \in Classes(id), children \in ChildLists(id) : Construct(id, cls, connector, negated, children)
    \/ \E id \in NodeIds, o \in 1..Len(Objects) : Evaluate(id, o)

Spec == Init /\ [][Next]_vars

InitLeaf == TreeInit /\ LeafInit /\ KeyIdle

NextLeaf == LeafCompile \/ LeafApply

SpecLeaf == InitLeaf /\ [][NextLeaf]_vars

InitKey == TreeInit /\ LeafIdle /\ KeyInit

NextKey == KeyPrepare

SpecKey == InitKey /\ [][NextKey]_vars

----------------------------------------------------------------------------
(* Properties of one leaf (SpecLeaf) and of one key (SpecKey) *)

\* the opcode the leaf's key was written with, and the values it is applied to
LeafOp == SubSeq(lkey, 4, Len(lkey))
NewValue == lobj.attrs[P_x]
OldValue == lobj.prev[P_x]

IsNowOp(op) == Len(op) > 4 /\ SubSeq(op, 1, 4) = Now(<<>>)
BaseOp(op) == SubSeq(op, 5, Len(op))

\* the base comparison X(value, literal) of a transition opcode now_X
BaseComparison(op, value) == CallOp(operators[BaseOp(op)], value, lrhs, <<>>)

\* C1: a transition opcode now_X is true only when the previous value did not
\* satisfy X against the literal and the new value does, whenever both comparisons
\* are defined
C1_TransitionOnlyOnChange ==
    (/\ lpc = "done"
     /\ IsNowOp(LeafOp)
     /\ lobj.hasPrev
     /\ Returned(BaseComparison(LeafOp, OldValue))
     /\ Returned(BaseComparison(LeafOp, NewValue))
     /\ Returned(lres) /\ lres.val)
    => /\ ~BaseComparison(LeafOp, OldValue).val
       /\ BaseComparison(LeafOp, NewValue).val

\* C3: on a candidate without a previous version a transition opcode now_X does not
\* raise and gives the base comparison X(new value, literal)
C3_FiresOnFirstObservation ==
    (/\ lpc = "done"
     /\ IsNowOp(LeafOp)
     /\ ~lobj.hasPrev
     /\ Returned(BaseComparison(LeafOp, NewValue)))
    => lres = BaseComparison(LeafOp, NewValue)

Falsy == {PyNone, PyFalse, PyInt(0), PyStr(<<>>), PyList(<<>>)}

TruthySugar == (LeafOp = K_eq /\ lrhs = PyTrue) \/ (LeafOp = K_ne /\ lrhs = PyFalse)
FalsySugar == (LeafOp = K_eq /\ lrhs = PyFalse) \/ (LeafOp = K_ne /\ lrhs = PyTrue)

\* C7: eq True and ne False match exactly the truthy attribute values, eq False and
\* ne True exactly the falsy ones; every other (opcode, literal) pair keeps its opcode
C7_BooleanSugar ==
    (lpc = "done") =>
        /\ TruthySugar => lres = Ret(NewValue \notin Falsy)
        /\ FalsySugar => lres = Ret(NewValue \in Falsy)
        /\ ~(TruthySugar \/ FalsySugar) => lleaf.opcode = LeafOp

\* C7 witness: eq True matched a non-empty list
C7_Witness ==
    /\ lpc = "done"
    /\ LeafOp = K_eq /\ lrhs = PyTrue
    /\ NewValue = PyList(<<1>>)
    /\ lres = Ret(TRUE)

Numbers(a, b) == IsNum(a) /\ IsNum(b)

\* C8: now_gt with threshold T, current c and previous p is true only if c > T while
\* p did not exceed T; it is false when p > T and false when c <= T
C8_NowGtFirstExceeds ==
    (/\ lpc = "done"
     /\ LeafOp = Now(K_gt)
     /\ lobj.hasPrev
     /\ Numbers(NewValue, lrhs) /\ Numbers(OldValue, lrhs))
    => /\ Returned(lres)
       /\ lres.val => (NewValue.n > lrhs.n /\ ~(OldValue.n > lrhs.n))
       /\ OldValue.n > lrhs.n => ~lres.val
       /\ NewValue.n <= lrhs.n => ~lres.val

\* C8 witness: the value rose from below the threshold to above it
C8_Witness ==
    /\ lpc = "done"
    /\ LeafOp = Now(K_gt)
    /\ lobj.hasPrev
    /\ OldValue = PyInt(0) /\ lrhs = PyInt(1) /\ NewValue = PyInt(2)
    /\ lres = Ret(TRUE)

HasSep(key) == IsSubstring(SEP, key)

\* the suffix after the last separator of a key that has one
SuffixAfterLastSep(key) ==
    LET i == CHOOSE i \in 1..(Len(key) - 1) :
                 /\ SubSeq(key, i, i + 1) = SEP
                 /\ \A j \in (i + 1)..(Len(key) - 1) : SubSeq(key, j, j + 1) # SEP
    IN  SubSeq(key, i + 2, Len(key))

Registered == DOMAIN operators

\* C2: a key without separator, or whose suffix after the last separator is not a
\* registered opcode, fails with a ValueError naming the key as written; no key
\* without a separator is accepted
C2_MalformedKeyNamed ==
    (kpc = "done") =>
        /\ (~HasSep(kkey) \/ SuffixAfterLastSep(kkey) \notin Registered)
              => (kres.exc = "ValueError" /\ kres.arg = kkey)
        /\ ~HasSep(kkey) => kres.exc # ""

----------------------------------------------------------------------------
(* Properties of the tree machine (Spec) *)

\* the opcode suffix of a key: what follows its last separator, the key without one
OpcodeSuffix(key) == IF HasSep(key) THEN SuffixAfterLastSep(key) ELSE key

\* what precedes the last separator of a key, nothing without one
HeadBeforeLastSep(key) ==
    IF HasSep(key) THEN SubSeq(key, 1, Len(key) - Len(SuffixAfterLastSep(key)) - 2) ELSE <<>>

\* a leaf whose opcode is missing or not registered
MalformedLeaf(c) == c.kind = "cond" /\ OpcodeSuffix(c.key) \notin Registered

MalformedAt(n) == {i \in 1..Len(nodes[n].children) : MalformedLeaf(nodes[n].children[i])}

FirstMalformed(n) == CHOOSE i \in MalformedAt(n) : \A j \in MalformedAt(n) : i <= j

Called == last.node # 0

\* the result of the i-th child of the called node, taken alone, on the candidate
ChildOutcome(i) ==
    LET c == compile_node(nodes, nodes[last.node].children[i])
    IN  IF c.exc # "" THEN RaiseArg(c.exc, c.arg)
        ELSE CallChild(nodes, compileRan, c.f, Objects[last.obj]).out

ChildIndices == 1..Len(nodes[last.node].children)

AllChildrenReturn == \A i \in ChildIndices : Returned(ChildOutcome(i))

Perms(k) == {p \in [1..k -> 1..k] : \A i, j \in 1..k : p[i] = p[j] => i = j}

\* the outcome of the called node on the same candidate with its children reordered
PermutedOutcome(p) ==
    LET n == last.node
        ch == nodes[n].children
    IN  Call([nodes EXCEPT ![n].children = [i \in 1..Len(ch) |-> ch[p[i]]],
                           ![n].compiled = FALSE, ![n].stack = <<>>],
             compileRan, n, Objects[last.obj]).out

\* C4 as stated: compile runs at most once for a tree instance, whatever the calls
C4_CompileAtMostOnce == Called => ~(last.ran /\ last.ranBefore)

\* C4 amended: a compiled node is never compiled again; compile runs again only for a
\* node with a malformed direct child, whose compile raised; a node whose compile
\* ran without raising is compiled and stays so
C4_CompileSucceedsAtMostOnce ==
    /\ Called => /\ last.ran => ~last.before
                 /\ (last.ran /\ last.ranBefore) => MalformedAt(last.node) # {}
                 /\ (last.before /\ Returned(last.out)) => nodes[last.node].compiled
    /\ \A n \in Live(nodes) :
          /\ (compileRan[n] /\ MalformedAt(n) = {}) => nodes[n].compiled
          /\ nodes[n].compiled => compileRan[n]

\* C4 witness: a call on a compiled node that reused the cache
C4_Witness == Called /\ last.before /\ ~last.ran /\ Returned(last.out)

C6_GateAndNegation ==
    (Called /\ AllChildrenReturn) =>
        LET n == last.node
            agg == IF nodes[n].connector = "OR"
                   THEN \E i \in ChildIndices : ChildOutcome(i).val
                   ELSE \A i \in ChildIndices : ChildOutcome(i).val
        IN  /\ last.out = Ret(IF nodes[n].negated THEN ~agg ELSE agg)
            /\ \A m \in Live(nodes) :
                  (/\ nodes[m].cls = "Q"
                   /\ nodes[m].children = nodes[n].children
                   /\ nodes[m].connector = nodes[n].connector
                   /\ nodes[m].negated # nodes[n].negated)
                  => Call(nodes, compileRan, m, Objects[last.obj]).out = Ret(~last.out.val)

\* C6 witness: a negated tree over a nested tree and a leaf returned a boolean
C6_Witness ==
    /\ Called /\ AllChildrenReturn
    /\ nodes[last.node].negated
    /\ \E i, j \in ChildIndices :
          /\ nodes[last.node].children[i].kind = "node"
          /\ nodes[last.node].children[j].kind = "cond"

C10_FailedCompileNotCached ==
    /\ \A n \in Live(nodes) :
          /\ MalformedAt(n) # {} => (~nodes[n].compiled /\ nodes[n].stack = <<>>)
          /\ nodes[n].compiled =>
                /\ Len(nodes[n].stack) = Len(nodes[n].children)
                /\ \A i \in 1..Len(nodes[n].children) :
                      LET c == nodes[n].children[i]
                          f == nodes[n].stack[i]
                      IN  IF c.kind = "node" THEN f = QCallable(c.id)
                          ELSE f.kind = "leaf" /\ f.rhs = c.value
                               /\ f = compile_node(nodes, c).f
    /\ (Called /\ MalformedAt(last.node) # {}) =>
          /\ last.ran
          /\ last.out = RaiseArg("ValueError",
                 HeadBeforeLastSep(nodes[last.node].children[FirstMalformed(last.node)].key))

\* C10 witness: a second evaluate of a tree whose compile had raised compiled again
\* and raised again
C10_Witness ==
    /\ Called /\ last.ranBefore /\ last.ran
    /\ last.out.exc = "ValueError"
    /\ ~nodes[last.node].compiled

====
